---- MODULE Spec2Model ----
(***************************************************************************)
(* Model of bot.py: a Telegram bot that answers /start, /check, /search    *)
(* and /screenshot from the rows of a Google sheet.                        *)
(*                                                                         *)
(* Strings the code parses or normalises (the /check token, a Quantity     *)
(* cell, an Item cell, the /search words) are sequences of one-character   *)
(* strings, so that int(), startswith, strip, lower and join are computed. *)
(* A row is a record whose DOMAIN is the set of its column names.          *)
(***************************************************************************)
EXTENDS Integers, Sequences, FiniteSets, TLC

\* ---------------------------------------------------------------- bounds
\* longest sheet made of arbitrary rows
MaxRecs == 3
\* longest sheet made of numbered rows (more than two images' worth)
MaxRows == 51

\* ------------------------------------------------------ program constants
rows_per_image == 25
score_threshold == 70
canvas_height == 600
y_start == 10
y_step == 20

\* ------------------------------------------------------------ characters
Digits == {"0", "1", "2", "5", "7"}
Whitespace == {" "}

DigitVal(c) ==
  CASE c = "0" -> 0 [] c = "1" -> 1 [] c = "2" -> 2 [] c = "5" -> 5 [] c = "7" -> 7

\* str.strip(): leading and trailing whitespace removed
RECURSIVE LStrip(_)
LStrip(s) == IF s # <<>> /\ Head(s) \in Whitespace THEN LStrip(Tail(s)) ELSE s

RECURSIVE RStrip(_)
RStrip(s) ==
  IF s # <<>> /\ s[Len(s)] \in Whitespace THEN RStrip(SubSeq(s, 1, Len(s) - 1)) ELSE s

strip(s) == RStrip(LStrip(s))

\* str.lower() on the letters of the model's alphabet
LowerChar(c) == CASE c = "W" -> "w" [] c = "B" -> "b" [] OTHER -> c

lower(s) == [i \in 1..Len(s) |-> LowerChar(s[i])]

\* s.startswith(c) for a one-character prefix
startswith(s, c) == s # <<>> /\ Head(s) = c

\* " ".join(words)
RECURSIVE join(_)
join(words) ==
  IF words = <<>> THEN <<>>
  ELSE IF Len(words) = 1 THEN words[1]
  ELSE words[1] \o <<" ">> \o join(Tail(words))

\* --------------------------------------------------------- int() of a str
\* the sign-less digits of a literal, after strip() and an optional sign
LiteralBody(s) ==
  LET t == strip(s)
  IN IF t # <<>> /\ Head(t) \in {"+", "-"} THEN Tail(t) ELSE t

\* int(s) succeeds (otherwise it raises ValueError)
IsIntLiteral(s) ==
  LET b == LiteralBody(s)
  IN b # <<>> /\ \A i \in 1..Len(b) : b[i] \in Digits

RECURSIVE DigitsValue(_)
DigitsValue(b) ==
  IF b = <<>> THEN 0
  ELSE 10 * DigitsValue(SubSeq(b, 1, Len(b) - 1)) + DigitVal(b[Len(b)])

\* the value of int(s), s a literal
IntOfStr(s) ==
  LET t == strip(s)
      v == DigitsValue(LiteralBody(s))
  IN IF Head(t) = "-" THEN 0 - v ELSE v

\* ------------------------------------------------------------ cell values
\* a Quantity cell: an int, or a str
IntQ(n) == [t |-> "int", n |-> n, s |-> <<>>]
StrQ(s) == [t |-> "str", n |-> 0, s |-> s]
\* row.get('Quantity', '') of a row without the column
NoQ == StrQ(<<>>)

\* int(quantity) succeeds
QuantityParses(q) == q.t = "int" \/ IsIntLiteral(q.s)

\* int(quantity)
quantity_int(q) == IF q.t = "int" THEN q.n ELSE IntOfStr(q.s)

\* ------------------------------------------------------------------- rows
\* the rows a short sheet is made of
Rows ==
  { [Code |-> "A1", Item |-> <<"B">>, Quantity |-> IntQ(5)],
    [Code |-> "A2", Item |-> <<"w", " ">>, Quantity |-> IntQ(50)],
    [Code |-> "A3", Item |-> <<"b">>, Quantity |-> StrQ(<<"x">>)],
    [Item |-> <<"W">>, Quantity |-> StrQ(<<" ", "7">>)],
    [Item |-> <<"b">>, Quantity |-> IntQ(10), Location |-> "L"],
    [Code |-> "A6", Quantity |-> IntQ(0 - 1), Location |-> "L"],
    [Code |-> "A7", Item |-> <<"w">>, Location |-> "L"] }

\* the i-th row of a long sheet
NumberedRow(i) == [Code |-> "N", Item |-> <<"w">>, Quantity |-> IntQ(i)]

RECURSIVE SeqsUpTo(_, _)
SeqsUpTo(S, n) ==
  IF n = 0 THEN {<<>>}
  ELSE LET shorter == SeqsUpTo(S, n - 1)
       IN shorter \cup {Append(s, x) : s \in {t \in shorter : Len(t) = n - 1}, x \in S}

\* what sheet.get_all_records() may return
Sheets ==
  SeqsUpTo(Rows, MaxRecs) \cup {[i \in 1..n |-> NumberedRow(i)] : n \in 1..MaxRows}

\* row.get(k, '')
GetCode(row) == IF "Code" \in DOMAIN row THEN row.Code ELSE ""
GetItem(row) == IF "Item" \in DOMAIN row THEN row.Item ELSE <<>>
GetQuantity(row) == IF "Quantity" \in DOMAIN row THEN row.Quantity ELSE NoQ

\* len(row)
RowLen(row) == Cardinality(DOMAIN row)

\* ------------------------------------------------------------ environment
\* os.getenv of each setting gives a non-empty value
Configs == [token : BOOLEAN, creds : BOOLEAN, sheet_id : BOOLEAN]

\* what the spreadsheet service does to one request: fails the credentials
\* (lines 28-30), fails open_by_key (line 39), fails get_all_records after a
\* successful authentication, or serves rows
Serve(rows) == [kind |-> "ok", rows |-> rows]
Fail(kind) == [kind |-> kind, rows |-> <<>>]
Remotes ==
  {Fail("creds_rejected"), Fail("open_fail"), Fail("fetch_fail")}
    \cup {Serve(rows) : rows \in Sheets}

\* context.args of a /check: the words after the command
CheckArgs ==
  { <<>>,
    << <<"5">> >>,
    << <<"<", "5">> >>,
    << <<"1", "0">> >>,
    << <<"<", "-", "1">> >>,
    << <<"+", "7">>, <<"a">> >>,
    << <<"<">> >>,
    << <<"<", "a">> >>,
    << <<"a">> >>,
    << <<"-">> >>,
    << <<" ">> >> }

\* context.args of a /search
SearchArgs ==
  { <<>>,
    << <<" ">> >>,
    << <<" ">>, <<>> >>,
    << <<"W">> >>,
    << <<"W">>, <<"b">> >> }

\* the scores fuzz.partial_ratio may give
Scores == {69, 70, 100}

\* fuzz.partial_ratio(query, .) of one request: a score for each lower-cased,
\* stripped Item cell of the rows
ScoreTables(rows) ==
  [{lower(strip(GetItem(rows[i]))) : i \in 1..Len(rows)} -> Scores]

NoScores == [x \in {} |-> 0]

\* ------------------------------------------------------------- the replies
\* update.message.reply_text(...): msg names the message, items its listing
Text(msg, items) == [kind |-> "text", msg |-> msg, items |-> items, drawn |-> <<>>]

\* update.message.reply_photo(photo=image): drawn is what draw.text drew
Photo(drawn) == [kind |-> "photo", msg |-> "", items |-> <<>>, drawn |-> drawn]

\* what one run of a handler did
Result(replies, calls, records, escaped, logged) ==
  [replies |-> replies, calls |-> calls, records |-> records,
   escaped |-> escaped, logged |-> logged]

\* ------------------------------------------------ authenticate_google_sheets
\* mutant: the sheet id is not checked
authenticate_without_sheet_id_check(cfg, remote) ==
  IF ~cfg.creds THEN [ok |-> FALSE, logged |-> {"creds_missing"}]
  ELSE IF remote.kind = "creds_rejected" THEN [ok |-> FALSE, logged |-> {"auth_failed"}]
  ELSE IF remote.kind = "open_fail" THEN [ok |-> FALSE, logged |-> {"auth_failed"}]
  ELSE [ok |-> TRUE, logged |-> {}]

\* ok: a sheet is returned (otherwise None); logged: the errors logged
authenticate_google_sheets(cfg, remote) ==
  IF ~cfg.creds THEN [ok |-> FALSE, logged |-> {"creds_missing"}]
  ELSE IF remote.kind = "creds_rejected" THEN [ok |-> FALSE, logged |-> {"auth_failed"}]
  ELSE IF ~cfg.sheet_id THEN [ok |-> FALSE, logged |-> {"sheet_id_missing"}]
  ELSE IF remote.kind = "open_fail" THEN [ok |-> FALSE, logged |-> {"auth_failed"}]
  ELSE [ok |-> TRUE, logged |-> {}]

\* ---------------------------------------------------------------- /check
\* mutant: one message for both parse errors
parse_threshold_one_message(threshold_str) ==
  IF startswith(threshold_str, "<") /\ IsIntLiteral(Tail(threshold_str))
  THEN [ok |-> TRUE, comparison |-> "<", threshold |-> IntOfStr(Tail(threshold_str)),
        msg |-> ""]
  ELSE IF IsIntLiteral(threshold_str)
       THEN [ok |-> TRUE, comparison |-> ">=", threshold |-> IntOfStr(threshold_str),
             msg |-> ""]
       ELSE [ok |-> FALSE, comparison |-> "", threshold |-> 0, msg |-> "invalid_number"]

\* lines 56-69: ok, or the message of the parse error
parse_threshold(threshold_str) ==
  IF startswith(threshold_str, "<")
  THEN IF IsIntLiteral(Tail(threshold_str))
       THEN [ok |-> TRUE, comparison |-> "<", threshold |-> IntOfStr(Tail(threshold_str)),
             msg |-> ""]
       ELSE [ok |-> FALSE, comparison |-> "<", threshold |-> 0,
             msg |-> "invalid_after_lt"]
  ELSE IF IsIntLiteral(threshold_str)
       THEN [ok |-> TRUE, comparison |-> ">=", threshold |-> IntOfStr(threshold_str),
             msg |-> ""]
       ELSE [ok |-> FALSE, comparison |-> "", threshold |-> 0, msg |-> "invalid_number"]

\* the line appended for a row: Code, Item and Quantity as formatted
ItemLine(row) ==
  [code |-> GetCode(row), item |-> GetItem(row), quantity |-> GetQuantity(row)]

\* mutant: ">=" compared as ">"
row_matches_strict(row, comparison, thr) ==
  /\ ~(Cardinality(DOMAIN row) < 3)
  /\ QuantityParses(GetQuantity(row))
  /\ \/ comparison = "<" /\ quantity_int(GetQuantity(row)) < thr
     \/ comparison = ">=" /\ quantity_int(GetQuantity(row)) > thr

\* lines 80-91: the row is appended to matching_items
row_matches(row, comparison, thr) ==
  /\ ~(RowLen(row) < 3)
  /\ QuantityParses(GetQuantity(row))
  /\ \/ comparison = "<" /\ quantity_int(GetQuantity(row)) < thr
     \/ comparison = ">=" /\ quantity_int(GetQuantity(row)) >= thr

\* lines 78-91: the loop over the records
RECURSIVE matching_items(_, _, _)
matching_items(records, comparison, thr) ==
  IF records = <<>> THEN <<>>
  ELSE LET rest == matching_items(SubSeq(records, 1, Len(records) - 1), comparison, thr)
           row == records[Len(records)]
       IN IF row_matches(row, comparison, thr) THEN Append(rest, ItemLine(row)) ELSE rest

check_items(args, cfg, remote) ==
  IF args = <<>> THEN Result(<<Text("need_threshold", <<>>)>>, <<>>, <<>>, FALSE, {})
  ELSE
    LET p == parse_threshold(args[1])
        auth == authenticate_google_sheets(cfg, remote)
        sheet == remote.rows
        found == matching_items(sheet, p.comparison, p.threshold)
    IN IF ~p.ok THEN Result(<<Text(p.msg, <<>>)>>, <<>>, <<>>, FALSE, {})
       ELSE IF ~auth.ok
         THEN Result(<<Text("issue_accessing", <<>>)>>, <<"auth">>, <<>>, FALSE, auth.logged)
       ELSE IF remote.kind = "fetch_fail"
         THEN Result(<<Text("error_occurred", <<>>)>>, <<"auth", "fetch">>, <<>>, FALSE, {})
       ELSE IF found # <<>>
         THEN Result(<<Text("items_matching", found)>>, <<"auth", "fetch">>, sheet, FALSE, {})
       ELSE Result(<<Text("no_items_found", <<>>)>>, <<"auth", "fetch">>, sheet, FALSE, {})

\* --------------------------------------------------------------- /search
\* mutant: the query is not stripped
item_name_unstripped(args) == join(args)

\* line 103
item_name(args) == strip(join(args))

\* line 119: the library's score of the query against the row's Item
match_score(scores, row) == scores[lower(strip(GetItem(row)))]

\* line 122: record['Match Score'] = match_score
WithScore(row, sc) ==
  [k \in DOMAIN row \cup {"Match Score"} |-> IF k = "Match Score" THEN sc ELSE row[k]]

\* lines 117-123: the loop over the records
RECURSIVE matches(_, _)
matches(records, scores) ==
  IF records = <<>> THEN <<>>
  ELSE LET rest == matches(SubSeq(records, 1, Len(records) - 1), scores)
           row == records[Len(records)]
           sc == match_score(scores, row)
       IN IF sc >= score_threshold THEN Append(rest, WithScore(row, sc)) ELSE rest

\* mutant: x is put before its equals (an unstable sort)
RECURSIVE InsertDesc_before_equals(_, _)
InsertDesc_before_equals(x, sorted) ==
  IF sorted = <<>> THEN <<x>>
  ELSE IF Head(sorted)["Match Score"] > x["Match Score"]
    THEN <<Head(sorted)>> \o InsertDesc_before_equals(x, Tail(sorted))
  ELSE <<x>> \o sorted

\* x put into a list sorted by score descending, after its equals
RECURSIVE InsertDesc(_, _)
InsertDesc(x, sorted) ==
  IF sorted = <<>> THEN <<x>>
  ELSE IF Head(sorted)["Match Score"] >= x["Match Score"]
    THEN <<Head(sorted)>> \o InsertDesc(x, Tail(sorted))
  ELSE <<x>> \o sorted

\* line 126: list.sort(key=score, reverse=True), a stable sort
RECURSIVE sort_matches(_)
sort_matches(ms) ==
  IF ms = <<>> THEN <<>>
  ELSE InsertDesc(ms[Len(ms)], sort_matches(SubSeq(ms, 1, Len(ms) - 1)))

search_item(args, cfg, remote, scores) ==
  LET auth == authenticate_google_sheets(cfg, remote)
      found == matches(remote.rows, scores)
  IN IF item_name(args) = <<>>
       THEN Result(<<Text("need_item_name", <<>>)>>, <<>>, <<>>, FALSE, {})
     ELSE IF ~auth.ok
       THEN Result(<<Text("issue_accessing", <<>>)>>, <<"auth">>, <<>>, FALSE, auth.logged)
     ELSE IF remote.kind = "fetch_fail"
       THEN Result(<<>>, <<"auth", "fetch">>, <<>>, TRUE, {})
     ELSE IF found # <<>>
       THEN Result(<<Text("matching_items", sort_matches(found))>>, <<"auth", "fetch">>,
                   remote.rows, FALSE, {})
     ELSE Result(<<Text("no_matches", <<>>)>>, <<"auth", "fetch">>, remote.rows, FALSE, {})

\* ----------------------------------------------------------- /screenshot
\* mutant: y_offset is advanced before the line is drawn
create_table_image_advance_first(data) ==
  [k \in 1..Len(data) |->
     [x |-> 10, y |-> y_start + y_step * k, line |-> ItemLine(data[k])]]

\* lines 144-148: what draw.text draws, one line per row
create_table_image(data) ==
  [k \in 1..Len(data) |->
     [x |-> 10, y |-> y_start + y_step * (k - 1), line |-> ItemLine(data[k])]]

\* range(i, n, step)
RECURSIVE range(_, _, _)
range(i, n, step) == IF i >= n THEN <<>> ELSE <<i>> \o range(i + step, n, step)

\* mutant: the slice ends one row early
slice_short(records, i, j) ==
  SubSeq(records, i + 1, IF j - 1 < Len(records) THEN j - 1 ELSE Len(records))

\* records[i:j], a slice with 0-based bounds
slice(records, i, j) ==
  SubSeq(records, i + 1, IF j < Len(records) THEN j ELSE Len(records))

\* line 165
chunks(records) ==
  LET starts == range(0, Len(records), rows_per_image)
  IN [c \in 1..Len(starts) |-> slice(records, starts[c], starts[c] + rows_per_image)]

\* mutant: a failed authentication is tried again
send_screenshot_retry(cfg, remote) ==
  LET auth == authenticate_google_sheets(cfg, remote)
      parts == chunks(remote.rows)
  IN IF ~auth.ok
       THEN Result(<<Text("issue_accessing", <<>>)>>, <<"auth", "auth">>, <<>>, FALSE,
                   auth.logged)
     ELSE IF remote.kind = "fetch_fail"
       THEN Result(<<>>, <<"auth", "fetch">>, <<>>, TRUE, {})
     ELSE Result([c \in 1..Len(parts) |-> Photo(create_table_image(parts[c]))],
                 <<"auth", "fetch">>, remote.rows, FALSE, {})

send_screenshot(cfg, remote) ==
  LET auth == authenticate_google_sheets(cfg, remote)
      parts == chunks(remote.rows)
  IN IF ~auth.ok
       THEN Result(<<Text("issue_accessing", <<>>)>>, <<"auth">>, <<>>, FALSE, auth.logged)
     ELSE IF remote.kind = "fetch_fail"
       THEN Result(<<>>, <<"auth", "fetch">>, <<>>, TRUE, {})
     ELSE Result([c \in 1..Len(parts) |-> Photo(create_table_image(parts[c]))],
                 <<"auth", "fetch">>, remote.rows, FALSE, {})

\* ----------------------------------------------------------------- /start
start == Result(<<Text("welcome", <<>>)>>, <<>>, <<>>, FALSE, {})

\* ------------------------------------------------------------------ state
VARIABLES
  cfg,        \* which settings the environment holds
  phase,      \* "boot", "serving" (run_polling) or "exited" (main returned)
  logged,     \* the errors logged by the last step
  cmd,        \* the command being answered, "none" between requests
  args,       \* its context.args
  remote,     \* what the spreadsheet service did to it
  scores,     \* the library's scores of its query
  calls,      \* the handler's calls to the spreadsheet: "auth", "fetch"
  records,    \* the rows the handler fetched
  replies,    \* the replies the handler sent
  escaped,    \* an exception left the handler
  prevFailed  \* the request before this one ended in a failure

vars ==
  <<cfg, phase, logged, cmd, args, remote, scores, calls, records, replies, escaped,
    prevFailed>>

NoRemote == Fail("none")

Init ==
  /\ cfg \in Configs
  /\ phase = "boot"
  /\ logged = {}
  /\ cmd = "none"
  /\ args = <<>>
  /\ remote = "none"
  /\ scores = NoScores
  /\ calls = <<>>
  /\ records = <<>>
  /\ replies = <<>>
  /\ escaped = FALSE
  /\ prevFailed = FALSE

\* mutant: the bot serves whether or not the token is set
main_unchecked ==
  /\ phase = "boot"
  /\ phase' = "serving"
  /\ logged' = {}
  /\ UNCHANGED <<cfg, cmd, args, remote, scores, calls, records, replies, escaped,
                 prevFailed>>

\* lines 176-196: the token is checked, then the bot serves
main ==
  /\ phase = "boot"
  /\ IF ~cfg.token
       THEN phase' = "exited" /\ logged' = {"token_missing"}
       ELSE phase' = "serving" /\ logged' = {}
  /\ UNCHANGED <<cfg, cmd, args, remote, scores, calls, records, replies, escaped,
                 prevFailed>>

Idle == phase = "serving" /\ cmd = "none"

\* the handler's result becomes the state of the request
Handled(c, a, rm, sc, res) ==
  /\ cmd' = c
  /\ args' = a
  /\ remote' = rm.kind
  /\ scores' = sc
  /\ calls' = res.calls
  /\ records' = res.records
  /\ replies' = res.replies
  /\ escaped' = res.escaped
  /\ logged' = res.logged
  /\ UNCHANGED <<cfg, phase, prevFailed>>

Start ==
  /\ Idle
  /\ Handled("start", <<>>, NoRemote, NoScores, start)

Check ==
  /\ Idle
  /\ \E a \in CheckArgs, rm \in Remotes :
       Handled("check", a, rm, NoScores, check_items(a, cfg, rm))

Search ==
  /\ Idle
  /\ \E a \in SearchArgs, rm \in Remotes :
       \E sc \in ScoreTables(rm.rows) :
       Handled("search", a, rm, sc, search_item(a, cfg, rm, sc))

Screenshot ==
  /\ Idle
  /\ \E rm \in Remotes :
       Handled("screenshot", <<>>, rm, NoScores, send_screenshot(cfg, rm))

\* the request failed: an exception, or a reply that reports a failure
Failed ==
  \/ escaped
  \/ \E i \in 1..Len(replies) : replies[i].msg \in {"issue_accessing", "error_occurred"}

\* the handler has returned: nothing of the request is kept
Finish ==
  /\ phase = "serving"
  /\ cmd # "none"
  /\ prevFailed' = Failed
  /\ cmd' = "none"
  /\ args' = <<>>
  /\ remote' = "none"
  /\ scores' = NoScores
  /\ calls' = <<>>
  /\ records' = <<>>
  /\ replies' = <<>>
  /\ escaped' = FALSE
  /\ logged' = {}
  /\ UNCHANGED <<cfg, phase>>

Next == main \/ Start \/ Check \/ Search \/ Screenshot \/ Finish

Spec == Init /\ [][Next]_vars

\* ====================================================================
\* Properties
\* ====================================================================
DataCommands == {"check", "search", "screenshot"}

\* every required setting is present
ConfigComplete == cfg.creds /\ cfg.sheet_id

\* authentication of the request fails: a setting is missing or the service
\* refuses
AuthFails == ~ConfigComplete \/ remote \in {"creds_rejected", "open_fail"}

\* the rows were served to the request
Served == ConfigComplete /\ remote = "ok"

\* the /check token is a threshold: an integer, or '<' and an integer
ValidThreshold(tok) ==
  IF tok # <<>> /\ tok[1] = "<"
  THEN IsIntLiteral(SubSeq(tok, 2, Len(tok)))
  ELSE IsIntLiteral(tok)

\* the /search words hold a character that is not whitespace
QueryGiven(words) ==
  \E w \in 1..Len(words) : \E i \in 1..Len(words[w]) : words[w][i] \notin Whitespace

\* the request's arguments pass the handler's validation
ArgsValid ==
  \/ cmd = "screenshot"
  \/ cmd = "check" /\ args # <<>> /\ ValidThreshold(args[1])
  \/ cmd = "search" /\ QueryGiven(args)

IssueReply == <<Text("issue_accessing", <<>>)>>

\* the records a text reply lists
Listing == IF Len(replies) = 1 THEN replies[1].items ELSE <<>>

\* ------------------------------------------------------------------- C1
CheckLess == args[1][1] = "<"
CheckN == IF CheckLess THEN IntOfStr(Tail(args[1])) ELSE IntOfStr(args[1])

\* the quantity of the row is an integer on the asked side of N
QuantityPasses(row) ==
  /\ "Quantity" \in DOMAIN row
  /\ QuantityParses(row.Quantity)
  /\ IF CheckLess THEN quantity_int(row.Quantity) < CheckN
                  ELSE quantity_int(row.Quantity) >= CheckN

\* the row as the claim wants it shown: an absent field is the empty string
Shown(row) ==
  [code |-> IF "Code" \in DOMAIN row THEN row.Code ELSE "",
   item |-> IF "Item" \in DOMAIN row THEN row.Item ELSE <<>>,
   quantity |-> IF "Quantity" \in DOMAIN row THEN row.Quantity ELSE StrQ(<<>>)]

ShownAll(rows) == [i \in 1..Len(rows) |-> Shown(rows[i])]

AtLeastThreeFields(row) == Cardinality(DOMAIN row) >= 3
PassesWithThreeFields(row) == AtLeastThreeFields(row) /\ QuantityPasses(row)

CheckServed == cmd = "check" /\ args # <<>> /\ ValidThreshold(args[1]) /\ Served

\* C1 as stated: /check N lists, in source order, exactly the records whose
\* Quantity parses as an integer on the asked side of N (>= N, or < N for
\* "<N"), whatever other fields the record has or lacks.
C1_AsStated ==
  CheckServed =>
    /\ Len(replies) = 1
    /\ Listing = ShownAll(SelectSeq(records, QuantityPasses))

\* C1 amended: /check N lists, in source order, exactly the records that have
\* at least three fields and whose Quantity parses as an integer on the asked
\* side of N; a record with fewer than three fields or with a Quantity that
\* does not parse is in neither result; an absent Code or Item of a listed
\* record is shown as the empty string.
C1_CheckListsExactly ==
  CheckServed =>
    /\ Len(replies) = 1
    /\ replies[1].kind = "text"
    /\ Listing = ShownAll(SelectSeq(records, PassesWithThreeFields))
    /\ replies[1].msg = (IF Listing = <<>> THEN "no_items_found" ELSE "items_matching")

\* a listing that shows an absent Code as "" and leaves a fetched row out
C1_Witness ==
  /\ CheckServed
  /\ Len(Listing) >= 2
  /\ Len(Listing) < Len(records)
  /\ \E i \in 1..Len(Listing) : Listing[i].code = ""
  /\ \E i \in 1..Len(records) : ~AtLeastThreeFields(records[i])

\* ------------------------------------------------------------------- C2
\* C2: a /check token without a leading '<' that is no integer, and a token
\* with a leading '<' whose remainder is no integer, each get their own
\* parse-error reply, and no record is listed.
C2_ParseErrors ==
  (cmd = "check" /\ args # <<>> /\ ~ValidThreshold(args[1])) =>
    /\ Len(replies) = 1
    /\ replies[1].kind = "text"
    /\ replies[1].items = <<>>
    /\ replies[1].msg = (IF args[1][1] = "<" THEN "invalid_after_lt" ELSE "invalid_number")
    /\ records = <<>>

C2_Witness ==
  /\ cmd = "check"
  /\ args = << <<"<", "a">> >>
  /\ replies = <<Text("invalid_after_lt", <<>>)>>

\* ------------------------------------------------------------------- C3
\* C3: a failure raised while a /search, /check or /screenshot is handled (the
\* row fetch failing after a successful authentication) is caught in the
\* handler and reported in a reply; none leaves the handler.
C3_FailuresContained ==
  (cmd \in DataCommands /\ ArgsValid /\ ConfigComplete /\ remote = "fetch_fail") =>
    /\ ~escaped
    /\ Len(replies) = 1
    /\ replies[1].msg = "error_occurred"

\* ------------------------------------------------------------------- C4
\* C4 as stated: when authentication fails, every /search, /check and
\* /screenshot replies with the "issue accessing the data" message.
C4_AsStated ==
  (cmd \in DataCommands /\ AuthFails) => replies = IssueReply

\* C4 amended: when authentication fails, every /search, /check and
\* /screenshot whose arguments pass validation replies with the same "issue
\* accessing the data" message and sends no listing or image, and the
\* process goes on serving.
C4_AuthFailureReply ==
  (cmd \in DataCommands /\ ArgsValid /\ AuthFails) =>
    /\ replies = IssueReply
    /\ records = <<>>
    /\ ~escaped
    /\ phase = "serving"

C4_Witness ==
  /\ cmd = "screenshot"
  /\ ConfigComplete
  /\ remote = "open_fail"
  /\ replies = IssueReply

\* ------------------------------------------------------------------- C5
\* the library's score of a fetched row
ScoreOfRow(row) ==
  scores[lower(strip(IF "Item" \in DOMAIN row THEN row.Item ELSE <<>>))]

\* a match without the score that search_item added to it
Unscored(m) == [k \in DOMAIN m \ {"Match Score"} |-> m[k]]

Max(S) == CHOOSE x \in S : \A y \in S : y <= x

\* the fetched rows with a score in S: highest score first, rows of one score
\* in sheet order
RECURSIVE ByScoreDescending(_)
ByScoreDescending(S) ==
  IF S = {} THEN <<>>
  ELSE LET HasMax(row) == ScoreOfRow(row) = Max(S)
       IN SelectSeq(records, HasMax) \o ByScoreDescending(S \ {Max(S)})

SearchServed == cmd = "search" /\ QueryGiven(args) /\ Served

\* C5: /search returns no record scoring below 70 and every record scoring
\* at least 70, ordered by score descending, records of equal score in their
\* original relative order.
C5_SearchResult ==
  SearchServed =>
    /\ Len(replies) = 1
    /\ \A k \in 1..Len(Listing) : Listing[k]["Match Score"] >= 70
    /\ \A k \in 1..Len(Listing) : Listing[k]["Match Score"] = ScoreOfRow(Unscored(Listing[k]))
    /\ [k \in 1..Len(Listing) |-> Unscored(Listing[k])]
         = ByScoreDescending({v \in Scores : v >= 70})

\* two different rows of one score listed after a row of a higher score that
\* the sheet holds after them
C5_Witness ==
  /\ SearchServed
  /\ Len(Listing) = 3
  /\ Listing[1]["Match Score"] > Listing[2]["Match Score"]
  /\ Listing[2]["Match Score"] = Listing[3]["Match Score"]
  /\ Unscored(Listing[2]) # Unscored(Listing[3])
  /\ records[3] = Unscored(Listing[1])

\* ------------------------------------------------------------------- C6
ScreenshotServed == cmd = "screenshot" /\ Served

\* C6: n records give ceil(n/25) images in chunk order, each of at most 25
\* records, all but the last of exactly 25, together the record sequence;
\* 30 records give two images of 25 and 5 lines.
C6_Chunks ==
  ScreenshotServed =>
    LET n == Len(records)
        images == Len(replies)
    IN /\ images = (n + 24) \div 25
       /\ \A c \in 1..images :
            /\ replies[c].kind = "photo"
            /\ Len(replies[c].drawn) <= 25
            /\ Len(replies[c].drawn) >= 1
            /\ c < images => Len(replies[c].drawn) = 25
            /\ c = images => Len(replies[c].drawn) = n - 25 * (images - 1)
            /\ \A k \in 1..Len(replies[c].drawn) :
                 replies[c].drawn[k].line = Shown(records[25 * (c - 1) + k])
       /\ n = 30 =>
            /\ images = 2
            /\ Len(replies[1].drawn) = 25
            /\ Len(replies[2].drawn) = 5

C6_Witness ==
  /\ ScreenshotServed
  /\ Len(records) = 30
  /\ Len(replies) = 2
  /\ Len(replies[2].drawn) = 5

C8_OneAttempt ==
  /\ (cmd \in DataCommands /\ ArgsValid) =>
       /\ calls = (IF AuthFails THEN <<"auth">> ELSE <<"auth", "fetch">>)
       /\ ~Served => records = <<>>
  /\ cmd = "none" =>
       /\ calls = <<>>
       /\ records = <<>>
       /\ replies = <<>>
       /\ remote = "none"

\* a request served right after a failed one
C8_Witness ==
  /\ prevFailed
  /\ cmd = "check"
  /\ calls = <<"auth", "fetch">>
  /\ records # <<>>
  /\ replies[1].msg = "items_matching"

\* ------------------------------------------------------------------- C9
\* C9: a /search with an empty or whitespace-only query, and a /check with a
\* missing or malformed threshold, are answered without any authentication
\* attempt or row fetch.
C9_ValidationFirst ==
  (cmd \in {"search", "check"} /\ ~ArgsValid) =>
    /\ calls = <<>>
    /\ records = <<>>
    /\ logged = {}
    /\ Len(replies) = 1
    /\ replies[1].msg \in
         (IF cmd = "search" THEN {"need_item_name"}
          ELSE {"need_threshold", "invalid_number", "invalid_after_lt"})

C9_Witness ==
  /\ cmd = "search"
  /\ args = << <<" ">> >>
  /\ calls = <<>>
  /\ replies = <<Text("need_item_name", <<>>)>>

\* ------------------------------------------------------------------ C10
\* C10: in every image the k-th record of the chunk (k from 0) is drawn at
\* vertical offset 10 + 20*k, at most 490 and so inside the 600-pixel canvas.
C10_LinesOnCanvas ==
  \A c \in 1..Len(replies) :
    replies[c].kind = "photo" =>
      \A k \in 1..Len(replies[c].drawn) :
        /\ replies[c].drawn[k].y = 10 + 20 * (k - 1)
        /\ replies[c].drawn[k].y <= 490
        /\ replies[c].drawn[k].y < canvas_height

C10_Witness ==
  /\ cmd = "screenshot"
  /\ Len(replies) >= 2
  /\ Len(replies[1].drawn) = 25
  /\ replies[1].drawn[25].y = 490

====
